---- MODULE Spec2Model ----
(***************************************************************************)
(* A model of the class flix of dialogue_relink/flix.py: the credential    *)
(* state (hostname, login, password, key, secret, expiry), authenticate,   *)
(* __get_token, __fn_sign, __get_headers, reset and the four legacy        *)
(* retrieval wrappers.                                                     *)
(*                                                                         *)
(* Python text (str) and bytes values are sequences of one-character       *)
(* strings.  An MD5 hex digest is one symbol "md5(...)" naming the bytes   *)
(* that were hashed; an HMAC is a record naming its key and its message.   *)
(* Time is counted in seconds from 2024-01-01T00:00:00 (UTC).              *)
(***************************************************************************)
EXTENDS Integers, Sequences, FiniteSets, TLC

VARIABLES
    self,        \* the instance's attributes: hostname, login, password, key, secret, expiry
    utcNow,      \* the wall clock, in UTC seconds
    tz,          \* the offset of the host's local time zone from UTC, in seconds
    op,          \* the last call made on the instance ("tick" once time has passed since)
    args,        \* the arguments of that call
    pre,         \* the attributes when that call started
    exc,         \* the exception that call raised ("" when it returned normally)
    ret,         \* <<v>> when that call returned v, <<>> when it raised
    log,         \* what that call did: the authenticate calls it made, the requests it
                 \* sent to POST hostname/authenticate, and the endpoint's answer
    raw_string,  \* <<s>> when that call built the canonical string s (line 136)
    pc,          \* per thread: its position (a line) in __get_token and authenticate
    obs,         \* per thread: the attributes it read at line 72
    frame,       \* per thread: the local variables of its calls
    posted,      \* per thread: the number of authentication requests it has sent
    session      \* <<i>> when i = (hostname, login, password) are the arguments of the
                 \* last authenticate call that returned its token, with no reset since;
                 \* <<>> when there is none

vars ==
    <<self, utcNow, tz, op, args, pre, exc, ret, log, raw_string, pc, obs, frame, posted,
      session>>

(***************************************************************************)
(* Bounds of the model.                                                    *)
(***************************************************************************)
MaxTime == 1
MaxUrlLen == 3

(***************************************************************************)
(* Python values.                                                          *)
(***************************************************************************)
None == "None"

NoExpiry == <<>>

NL == "\n"

Lowercase ==
    <<"a", "b", "c", "d", "e", "f", "g", "h", "i", "j", "k", "l", "m",
      "n", "o", "p", "q", "r", "s", "t", "u", "v", "w", "x", "y", "z">>

Uppercase ==
    <<"A", "B", "C", "D", "E", "F", "G", "H", "I", "J", "K", "L", "M",
      "N", "O", "P", "Q", "R", "S", "T", "U", "V", "W", "X", "Y", "Z">>

Digits == <<"0", "1", "2", "3", "4", "5", "6", "7", "8", "9">>

UpperChar(c) ==
    IF \E i \in 1..Len(Lowercase) : Lowercase[i] = c
    THEN Uppercase[CHOOSE i \in 1..Len(Lowercase) : Lowercase[i] = c]
    ELSE c

\* str.upper()
Upper(s) == [i \in 1..Len(s) |-> UpperChar(s[i])]

\* str.find(sep) from position i on: the index of the first sep, 0 when there is none
RECURSIVE Find(_, _, _)
Find(s, sep, i) ==
    IF i > Len(s) THEN 0 ELSE IF s[i] = sep THEN i ELSE Find(s, sep, i + 1)

\* str.split(sep): the list of the pieces between the occurrences of sep
RECURSIVE Split(_, _)
Split(s, sep) ==
    LET i == Find(s, sep, 1)
    IN  IF i = 0 THEN <<s>>
        ELSE <<SubSeq(s, 1, i - 1)>> \o Split(SubSeq(s, i + 1, Len(s)), sep)

\* the decimal digits of n, zero-padded to width w
RECURSIVE Pad(_, _)
Pad(n, w) ==
    IF w = 0 THEN <<>> ELSE Pad(n \div 10, w - 1) \o <<Digits[(n % 10) + 1]>>

\* F applied to the value of v, with v evaluated once
With(v, F(_)) == CHOOSE y \in {F(x) : x \in {v}} : TRUE

\* the characters of s joined into one symbol
RECURSIVE Flat(_)
Flat(s) == IF s = <<>> THEN "" ELSE Head(s) \o Flat(Tail(s))

\* a naive datetime of 2024-01-01, t seconds after midnight
DateTime(t, micro) ==
    [year |-> 2024, month |-> 1, day |-> 1 + (t \div 86400),
     hour |-> (t % 86400) \div 3600, minute |-> (t % 3600) \div 60,
     second |-> t % 60, microsecond |-> micro]

\* datetime.isoformat() of a naive datetime
IsoFormat(dt) ==
    Pad(dt.year, 4) \o <<"-">> \o Pad(dt.month, 2) \o <<"-">> \o Pad(dt.day, 2)
    \o <<"T">> \o Pad(dt.hour, 2) \o <<":">> \o Pad(dt.minute, 2)
    \o <<":">> \o Pad(dt.second, 2)
    \o (IF dt.microsecond = 0 THEN <<>> ELSE <<".">> \o Pad(dt.microsecond, 6))

(***************************************************************************)
(* __fn_sign.  A content is [type, value]: type is the Python type and     *)
(* value the sequence of its characters, bytes, or (for a dict) its keys   *)
(* and values in insertion order.                                          *)
(***************************************************************************)
Str(s) == [type |-> "str", value |-> s]

Bytes(s) == [type |-> "bytes", value |-> s]

\* bool(content), as `if content:` takes it
Truthy(content) ==
    CASE content.type = "NoneType" -> FALSE
      [] content.type = "int" -> content.value # <<"0">>
      [] OTHER -> Len(content.value) > 0

HexOf(c) ==
    CASE c = "f" -> <<"6", "6">>
      [] c = "o" -> <<"6", "f">>
      [] c = "a" -> <<"6", "1">>
      [] c = "=" -> <<"3", "d">>
      [] c = "1" -> <<"3", "1">>
      [] OTHER -> <<"3", "f">>

\* binascii.hexlify(content)
RECURSIVE HexChars(_)
HexChars(s) == IF s = <<>> THEN <<>> ELSE HexOf(Head(s)) \o HexChars(Tail(s))

Hexlify(content) == Bytes(HexChars(content.value))

\* json.dumps(content) of a dict with text keys and integer values
RECURSIVE JsonItems(_)
JsonItems(kv) ==
    IF kv = <<>> THEN <<>>
    ELSE <<"\"", kv[1], "\"", ":", " ", kv[2]>>
         \o (IF Len(kv) > 2 THEN <<",", " ">> ELSE <<>>)
         \o JsonItems(SubSeq(kv, 3, Len(kv)))

JsonDumps(content) == Str(<<"{">> \o JsonItems(content.value) \o <<"}">>)

\* str.encode('utf-8') of ASCII text
Encode(text) == Bytes(text.value)

\* hashlib.md5(data) raises TypeError unless data is bytes
Md5Raises(data) == data.type # "bytes"

\* hashlib.md5(data).hexdigest()
Md5HexDigest(data) == <<"md5(" \o Flat(data.value) \o ")">>

\* lines 118-127
ContentMd5(content) ==
    IF ~Truthy(content) THEN <<>>
    ELSE CASE content.type = "str" -> Md5HexDigest(content)
           [] content.type = "bytes" -> Md5HexDigest(Hexlify(content))
           [] content.type = "dict" -> Md5HexDigest(Encode(JsonDumps(content)))
           [] OTHER -> <<>>

\* lines 119-121: hashlib.md5 is handed the str itself
ContentMd5Raises(content) ==
    Truthy(content) /\ content.type = "str" /\ Md5Raises(content)

\* lines 128-132
ContentBlock(content, content_type) ==
    IF ContentMd5(content) # <<>>
    THEN ContentMd5(content) \o <<NL>> \o content_type \o <<NL>>
    ELSE <<NL, NL>>

\* the url with its query string kept
UrlWithQueryParams(url) == url

\* lines 134-135
UrlWithoutQueryParams(url) == Split(url, "?")[1]

\* lines 117-136: raw_string
RawString(url, content, http_method, content_type, dt) ==
    Upper(http_method) \o <<NL>>
    \o ContentBlock(content, content_type)
    \o Split(IsoFormat(dt), ".")[1] \o <<"Z", NL>>
    \o UrlWithoutQueryParams(url)

\* lines 139-143: base64 of the HMAC-SHA256 of raw_string under the secret
DigestCreated(secret_access_key, raw) == [hmac_key |-> secret_access_key, msg |-> raw]

\* lines 137-138: len(secret_access_key) == 0
SecretIsEmpty(secret_access_key) == Len(secret_access_key) = 0

\* __fn_sign: [exc, ret, raw_string] of one call
FnSign(access_key_id, secret_access_key, url, content, http_method, content_type, dt) ==
    LET raw == RawString(url, content, http_method, content_type, dt)
    IN  IF ContentMd5Raises(content)
        THEN [exc |-> "TypeError", ret |-> <<>>, raw_string |-> <<>>]
        ELSE IF secret_access_key = None
        THEN [exc |-> "TypeError", ret |-> <<>>, raw_string |-> <<raw>>]
        ELSE IF SecretIsEmpty(secret_access_key)
        THEN [exc |-> "ValueError", ret |-> <<>>, raw_string |-> <<raw>>]
        ELSE [exc |-> "", raw_string |-> <<raw>>,
              ret |-> <<[scheme |-> "FNAUTH ", access_key_id |-> access_key_id,
                         sep |-> ":",
                         digest |-> DigestCreated(secret_access_key, raw)]>>]

(***************************************************************************)
(* The credential state and the authentication endpoint.                   *)
(***************************************************************************)
\* timedelta(hours=2), line 73, in seconds
SafetyMargin == 2 * 3600

\* seconds from 2024-01-01T00:00:00 of a datetime of January 2024
ToSeconds(dt) ==
    (dt.day - 1) * 86400 + dt.hour * 3600 + dt.minute * 60 + dt.second

IsDigit(c) == c \in {"0", "1", "2", "3", "4", "5", "6", "7", "8", "9"}

DigitVal(c) ==
    CASE c = "0" -> 0 [] c = "1" -> 1 [] c = "2" -> 2 [] c = "3" -> 3 [] c = "4" -> 4
      [] c = "5" -> 5 [] c = "6" -> 6 [] c = "7" -> 7 [] c = "8" -> 8 [] c = "9" -> 9

\* the number a sequence of digits writes
RECURSIVE Num(_)
Num(s) == IF s = <<>> THEN 0 ELSE 10 * Num(SubSeq(s, 1, Len(s) - 1)) + DigitVal(s[Len(s)])

\* whether datetime.strptime(s, '%Y-%m-%dT%H:%M:%S') accepts s (zero-padded fields)
StrptimeAccepts(s) ==
    /\ Len(s) = 19
    /\ s[5] = "-" /\ s[8] = "-" /\ s[11] = "T" /\ s[14] = ":" /\ s[17] = ":"
    /\ \A i \in (1..19) \ {5, 8, 11, 14, 17} : IsDigit(s[i])
    /\ Num(SubSeq(s, 6, 7)) \in 1..12
    /\ Num(SubSeq(s, 9, 10)) \in 1..31
    /\ Num(SubSeq(s, 12, 13)) \in 0..23
    /\ Num(SubSeq(s, 15, 16)) \in 0..59
    /\ Num(SubSeq(s, 18, 19)) \in 0..59

\* datetime.strptime(s, '%Y-%m-%dT%H:%M:%S')
Strptime(s) ==
    [year |-> Num(SubSeq(s, 1, 4)), month |-> Num(SubSeq(s, 6, 7)),
     day |-> Num(SubSeq(s, 9, 10)), hour |-> Num(SubSeq(s, 12, 13)),
     minute |-> Num(SubSeq(s, 15, 16)), second |-> Num(SubSeq(s, 18, 19)),
     microsecond |-> 0]

\* reset, lines 179-184; also the instance __init__ leaves (lines 25-26)
Empty ==
    [hostname |-> None, login |-> None, password |-> None,
     key |-> None, secret |-> None, expiry |-> NoExpiry]

PyNone == [type |-> "NoneType", value |-> <<>>]

\* a call that has called nothing yet
NoLog == [called |-> <<>>, sent |-> <<>>, answer |-> ""]

Raised(s, e, l) == [self |-> s, exc |-> e, ret |-> <<>>, log |-> l]

Returned(s, v, l) == [self |-> s, exc |-> "", ret |-> <<v>>, log |-> l]

\* the request of lines 41-49: POST hostname/authenticate with Basic login:password
AuthRequest(hostname, login, password) ==
    [url |-> <<hostname, "/authenticate">>, authdata |-> <<login, ":", password>>]

\* seconds from the request to the expiry of an issued token
Lifetimes == {SafetyMargin - 1, SafetyMargin, SafetyMargin + 1}

\* the expiry_date text of a token that expires at time t
ExpiryDate(t, micro) == IsoFormat(DateTime(t, micro))

Token(id, secret_access_key, expiry_date) ==
    [id |-> id, secret_access_key |-> secret_access_key, expiry_date |-> expiry_date]

\* the token bodies the endpoint sends at time now: well-formed ones, one with an
\* empty secret, one whose expiry_date strptime rejects, and bodies with fields left out
Responses(now) ==
    {Token("k1", "s1", ExpiryDate(now + l, IF l = SafetyMargin THEN 123456 ELSE 0)) :
        l \in Lifetimes}
    \cup {Token("k2", "s2", ExpiryDate(now + SafetyMargin + 1, 500000)),
          Token("k3", "", ExpiryDate(now + SafetyMargin + 1, 0)),
          Token("k2", "s2", ExpiryDate(now + SafetyMargin + 1, 0) \o <<"Z">>),
          [secret_access_key |-> "s2",
           expiry_date |-> ExpiryDate(now + SafetyMargin + 1, 0)],
          [id |-> "k2", expiry_date |-> ExpiryDate(now + SafetyMargin + 1, 0)],
          [id |-> "k2", secret_access_key |-> "s2"]}

\* what requests.post, raise_for_status and json.loads can do (lines 48-51)
NetOutcomes(now) ==
    {[kind |-> k, response |-> <<>>] : k \in {"ConnectionError", "HTTPError", "JSONDecodeError"}}
    \cup {[kind |-> "ok", response |-> r] : r \in Responses(now)}

\* the answers at each time of the clock
NetAt == [t \in 0..(MaxTime + 1) |-> NetOutcomes(t)]

\* the expiry_date texts the endpoint sends
ExpiryTexts ==
    {n.response.expiry_date :
        n \in {m \in UNION {NetAt[t] : t \in DOMAIN NetAt} :
                  m.kind = "ok" /\ "expiry_date" \in DOMAIN m.response}}

\* lines 61-62 and 79-83 on each of these texts: <<the datetime>>, or <<>> when
\* strptime raises ValueError
ExpiryOf ==
    [text \in ExpiryTexts |->
        LET head == Split(text, ".")[1]
        IN  IF StrptimeAccepts(head) THEN <<Strptime(head)>> ELSE <<>>]

ParseExpiry(text) == ExpiryOf[text]

\* lines 52-54
StoreIdentity(s, hostname, login, password) ==
    [s EXCEPT !.hostname = hostname, !.login = login, !.password = password]

\* lines 59-63, after the identity is stored
StoreToken(s, response, l) ==
    IF "id" \notin DOMAIN response THEN Raised(s, "KeyError", l)
    ELSE LET s1 == [s EXCEPT !.key = response.id]
    IN  IF "secret_access_key" \notin DOMAIN response THEN Raised(s1, "KeyError", l)
        ELSE LET s2 == [s1 EXCEPT !.secret = response.secret_access_key]
        IN  IF "expiry_date" \notin DOMAIN response THEN Raised(s2, "KeyError", l)
            ELSE With(ParseExpiry(response.expiry_date),
                      LAMBDA expiry :
                        IF expiry = <<>> THEN Raised(s2, "ValueError", l)
                        ELSE Returned([s2 EXCEPT !.expiry = expiry],
                                      [type |-> "dict", value |-> response], l))

\* authenticate without the failures of lines 41 and 48 on a None argument: the
\* request is sent with whatever the arguments are
AuthenticateAnyArguments(s, hostname, login, password, net, l) ==
    LET l1 == [l EXCEPT !.sent = @ \o <<AuthRequest(hostname, login, password)>>,
                        !.answer = net.kind]
    IN  CASE net.kind \in {"ConnectionError", "HTTPError"} -> Returned(s, PyNone, l1)
          [] net.kind = "JSONDecodeError" -> Raised(s, "ValueError", l1)
          [] OTHER -> StoreToken(StoreIdentity(s, hostname, login, password),
                                 net.response, l1)

\* authenticate sending its request a second time when the first one failed
AuthenticateWithRetry(s, hostname, login, password, net, l) ==
    IF login = None \/ password = None THEN Raised(s, "TypeError", l)
    ELSE IF hostname = None THEN Raised(s, "TypeError", l)
    ELSE LET l1 == [l EXCEPT !.sent = @ \o <<AuthRequest(hostname, login, password)>>,
                             !.answer = net.kind]
             l2 == [l1 EXCEPT !.sent = @ \o <<AuthRequest(hostname, login, password)>>]
    IN  CASE net.kind \in {"ConnectionError", "HTTPError"} -> Returned(s, PyNone, l2)
          [] net.kind = "JSONDecodeError" -> Raised(s, "ValueError", l1)
          [] OTHER -> StoreToken(StoreIdentity(s, hostname, login, password),
                                 net.response, l1)

\* authenticate with lines 52-54 ahead of the request of line 48
AuthenticateStoresIdentityFirst(s, hostname, login, password, net, l) ==
    IF login = None \/ password = None THEN Raised(s, "TypeError", l)
    ELSE IF hostname = None THEN Raised(s, "TypeError", l)
    ELSE LET l1 == [l EXCEPT !.sent = @ \o <<AuthRequest(hostname, login, password)>>,
                             !.answer = net.kind]
             s1 == StoreIdentity(s, hostname, login, password)
    IN  CASE net.kind \in {"ConnectionError", "HTTPError"} -> Returned(s1, PyNone, l1)
          [] net.kind = "JSONDecodeError" -> Raised(s1, "ValueError", l1)
          [] OTHER -> StoreToken(s1, net.response, l1)

\* authenticate, lines 41-63; net is what the endpoint answers to a request,
\* l the log of the call so far
Authenticate(s, hostname, login, password, net, l) ==
    IF login = None \/ password = None THEN Raised(s, "TypeError", l)
    ELSE IF hostname = None THEN Raised(s, "TypeError", l)
    ELSE LET l1 == [l EXCEPT !.sent = @ \o <<AuthRequest(hostname, login, password)>>,
                             !.answer = net.kind]
    IN  CASE net.kind \in {"ConnectionError", "HTTPError"} -> Returned(s, PyNone, l1)
          [] net.kind = "JSONDecodeError" -> Raised(s, "ValueError", l1)
          [] OTHER -> StoreToken(StoreIdentity(s, hostname, login, password),
                                 net.response, l1)

\* lines 72-73, with now the value of datetime.now()
RefreshRequired(s, now) ==
    \/ s.key = None
    \/ s.secret = None
    \/ s.expiry = NoExpiry
    \/ now + SafetyMargin > ToSeconds(s.expiry[1])

\* lines 76-83, with the value authenticate returned
StoreRefreshed(s, token, l) ==
    IF token.type = "NoneType" THEN Raised(s, "TypeError", l)
    ELSE LET t == token.value
    IN  IF "id" \notin DOMAIN t \/ "secret_access_key" \notin DOMAIN t
           \/ "expiry_date" \notin DOMAIN t
        THEN Raised(s, "KeyError", l)
        ELSE With(ParseExpiry(t.expiry_date),
                  LAMBDA expiry :
                    IF expiry = <<>>
                    THEN Raised([s EXCEPT !.key = t.id, !.secret = t.secret_access_key],
                                "ValueError", l)
                    ELSE Returned([s EXCEPT !.key = t.id, !.secret = t.secret_access_key,
                                            !.expiry = expiry],
                                  [type |-> "tuple",
                                   value |-> <<t.id, t.secret_access_key>>], l))

\* lines 74-75: the call of authenticate with the stored identity
Refresh(s, net) ==
    Authenticate(s, s.hostname, s.login, s.password, net,
                 [NoLog EXCEPT !.called = <<<<s.hostname, s.login, s.password>>>>])

\* __get_token returning the pair it read at line 72, whatever the refresh stored
GetTokenBeforeRefresh(s, now, net) ==
    IF RefreshRequired(s, now)
    THEN With(Refresh(s, net),
              LAMBDA a : IF a.exc # "" THEN a
                         ELSE With(StoreRefreshed(a.self, a.ret[1], a.log),
                                   LAMBDA b : IF b.exc # "" THEN b
                                              ELSE Returned(b.self,
                                                            [type |-> "tuple",
                                                             value |-> <<s.key, s.secret>>],
                                                            b.log)))
    ELSE Returned(s, [type |-> "tuple", value |-> <<s.key, s.secret>>], NoLog)

\* __get_token, lines 72-84, with now the value of datetime.now()
GetToken(s, now, net) ==
    IF RefreshRequired(s, now)
    THEN With(Refresh(s, net),
              LAMBDA a : IF a.exc # "" THEN a
                         ELSE StoreRefreshed(a.self, a.ret[1], a.log))
    ELSE Returned(s, [type |-> "tuple", value |-> <<s.key, s.secret>>], NoLog)

DayNames == <<"Mon", "Tue", "Wed", "Thu", "Fri", "Sat", "Sun">>

\* dt.strftime('%a, %d %b %Y %H:%M:%S GMT') of a datetime of January 2024
Strftime(dt) ==
    <<DayNames[((dt.day - 1) % 7) + 1], ",", " ">> \o Pad(dt.day, 2)
    \o <<" ", "Jan", " ">> \o Pad(dt.year, 4) \o <<" ">> \o Pad(dt.hour, 2)
    \o <<":">> \o Pad(dt.minute, 2) \o <<":">> \o Pad(dt.second, 2) \o <<" ", "GMT">>

ApplicationJson == <<"application/json">>

\* lines 163-174, with g what __get_token did and sg what __fn_sign did
Headers(g, sg, dt) ==
    IF sg.exc # ""
    THEN Raised(g.self, sg.exc, g.log) @@ [raw_string |-> sg.raw_string]
    ELSE Returned(g.self,
                  [type |-> "dict",
                   value |-> [Authorization |-> sg.ret[1],
                              ContentType |-> ApplicationJson,
                              Date |-> Strftime(dt)]],
                  g.log) @@ [raw_string |-> sg.raw_string]

\* __get_headers, lines 161-174: dt is datetime.utcnow(), now is datetime.now()
GetHeaders(s, content, url, method, dt, now, net) ==
    With(GetToken(s, now, net),
         LAMBDA g :
            IF g.exc # "" THEN g @@ [raw_string |-> <<>>]
            ELSE With(FnSign(g.ret[1].value[1], g.ret[1].value[2], url, content,
                             method, ApplicationJson, dt),
                      LAMBDA sg : Headers(g, sg, dt)))

(***************************************************************************)
(* The inputs of the calls and the answers of the endpoint.                *)
(***************************************************************************)
Threads == {1, 2}

\* the offsets of the local time zone from UTC, in seconds
TimeZones == {0 - 3600, 0, 3600}

\* (hostname, login, password) as a caller hands them to authenticate
Identities ==
    {<<"h1", "u1", "p1">>, <<"h2", "u2", "p2">>, <<None, "u1", "p1">>}

NoContent == [type |-> "NoneType", value |-> <<>>]

\* (content, url, method) of the __get_headers calls
HeaderCalls ==
    {[content |-> NoContent, url |-> <<"/", "s", "?", "a">>, method |-> <<"g", "e", "t">>],
     [content |-> Bytes(<<"f">>), url |-> <<"/", "s">>, method |-> <<"P", "O", "S", "T">>]}

\* datetime.now(), line 73: the local time
LocalNow == utcNow + tz

\* datetime.utcnow(), line 161
UtcDateTime == DateTime(utcNow, 0)

NoCall == [name |-> "none"]

(***************************************************************************)
(* The calls on one instance, one at a time.                               *)
(***************************************************************************)
Init ==
    /\ self = Empty
    /\ utcNow = 0
    /\ tz \in TimeZones
    /\ op = "__init__"
    /\ args = NoCall
    /\ pre = Empty
    /\ exc = ""
    /\ ret = <<>>
    /\ log = NoLog
    /\ raw_string = <<>>
    /\ pc = [t \in Threads |-> "idle"]
    /\ obs = [t \in Threads |-> Empty]
    /\ frame = [t \in Threads |-> NoCall]
    /\ posted = [t \in Threads |-> 0]
    /\ session = <<>>

\* the call `name` with arguments a ends as r says
Finish(name, a, r) ==
    /\ op' = name
    /\ args' = a
    /\ pre' = self
    /\ self' = r.self
    /\ exc' = r.exc
    /\ ret' = r.ret
    /\ log' = r.log
    /\ UNCHANGED <<tz, pc, obs, frame, posted>>

\* authenticate ran to line 63 and returned the response
TokenReturned(a) == a.exc = "" /\ a.ret[1].type = "dict"

\* the session after a __get_token call: the stored identity when the call's
\* authenticate (lines 74-75) returned its token
SessionAfterGetToken(s, now, net, ses) ==
    IF RefreshRequired(s, now) /\ TokenReturned(Refresh(s, net))
    THEN <<<<s.hostname, s.login, s.password>>>>
    ELSE ses

\* no request is sent, so the endpoint answers nothing
NoAnswer == [kind |-> "none", response |-> <<>>]

\* what the endpoint can answer to authenticate(hostname, login, password): nothing
\* when line 41 or line 48 raises on a None argument before the request is sent
AuthAnswers(hostname, login, password) ==
    IF hostname = None \/ login = None \/ password = None
    THEN {NoAnswer} ELSE NetAt[utcNow]

\* what the endpoint can answer to a __get_token call on s: its answer to the
\* request of the refresh, nothing when the call does not refresh
Answers(s, now) ==
    IF RefreshRequired(s, now) THEN AuthAnswers(s.hostname, s.login, s.password)
    ELSE {NoAnswer}

CallAuthenticate ==
    \E i \in Identities :
      \E net \in AuthAnswers(i[1], i[2], i[3]) :
        \E r \in {Authenticate(self, i[1], i[2], i[3], net, NoLog)} :
            /\ Finish("authenticate",
                      [name |-> "authenticate", hostname |-> i[1], login |-> i[2],
                       password |-> i[3]],
                      r)
            /\ raw_string' = <<>>
            /\ session' = IF TokenReturned(r) THEN <<i>> ELSE session
            /\ UNCHANGED utcNow

CallGetToken ==
    \E net \in Answers(self, LocalNow) :
        \E r \in {GetToken(self, LocalNow, net)} :
            /\ Finish("__get_token", [name |-> "__get_token"], r)
            /\ raw_string' = <<>>
            /\ session' = SessionAfterGetToken(self, LocalNow, net, session)
            /\ UNCHANGED utcNow

\* the seconds a request to the authentication endpoint can take
Elapsed == {0, 1}

\* __get_headers: dt is read on entry (line 161), then the call waits for the
\* endpoint while the clock advances
CallGetHeaders ==
    \E c \in HeaderCalls, net \in Answers(self, LocalNow) :
        \E r \in {GetHeaders(self, c.content, c.url, c.method, UtcDateTime, LocalNow, net)} :
            /\ Finish("__get_headers",
                      [name |-> "__get_headers", content |-> c.content, url |-> c.url,
                       method |-> c.method, entered |-> utcNow],
                      r)
            /\ raw_string' = r.raw_string
            /\ session' = SessionAfterGetToken(self, LocalNow, net, session)
            /\ \E d \in Elapsed :
                /\ utcNow + d <= MaxTime
                /\ r.log.sent = <<>> => d = 0
                /\ utcNow' = utcNow + d

\* reset without line 184: key is left as it is
CallResetKeepsKey ==
    /\ Finish("reset", [name |-> "reset"],
              Returned([Empty EXCEPT !.key = self.key], PyNone, NoLog))
    /\ raw_string' = <<>>
    /\ session' = <<>>
    /\ UNCHANGED utcNow

CallReset ==
    /\ Finish("reset", [name |-> "reset"], Returned(Empty, PyNone, NoLog))
    /\ raw_string' = <<>>
    /\ session' = <<>>
    /\ UNCHANGED utcNow

\* a second passes between two calls; the record of the last call is dropped
Tick ==
    /\ utcNow < MaxTime
    /\ utcNow' = utcNow + 1
    /\ op' = "tick"
    /\ args' = NoCall
    /\ pre' = self
    /\ exc' = ""
    /\ ret' = <<>>
    /\ log' = NoLog
    /\ raw_string' = <<>>
    /\ UNCHANGED <<self, tz, pc, obs, frame, posted, session>>

Next ==
    \/ CallAuthenticate
    \/ CallGetToken
    \/ CallGetHeaders
    \/ CallReset
    \/ Tick

Spec == Init /\ [][Next]_vars

(***************************************************************************)
(* __fn_sign on its own: one call on each combination of inputs.           *)
(***************************************************************************)
Methods == {<<"G", "E", "T">>, <<"g", "e", "t">>, <<"P", "o", "s", "t">>}

\* /show/1/sequence/2/revision/1, the url of get_sequence_revision_by_id(1, 2)
SequenceRevisionUrl ==
    <<"/", "s", "h", "o", "w", "/", "1", "/", "s", "e", "q", "u", "e", "n", "c", "e",
      "/", "2", "/", "r", "e", "v", "i", "s", "i", "o", "n", "/", "1">>

UrlChars == {"/", "s", "?"}

Urls ==
    UNION {[1..n -> UrlChars] : n \in 0..MaxUrlLen} \cup {SequenceRevisionUrl}

Contents ==
    {NoContent,
     Str(<<>>), Str(<<"f", "o", "o">>),
     Bytes(<<>>), Bytes(<<"f", "o", "o">>),
     [type |-> "dict", value |-> <<>>], [type |-> "dict", value |-> <<"a", "1">>],
     [type |-> "dict", value |-> <<"a", "1", "o", "1">>],
     [type |-> "list", value |-> <<>>], [type |-> "list", value |-> <<"1">>],
     [type |-> "int", value |-> <<"0">>], [type |-> "int", value |-> <<"1">>]}

ContentTypes == {ApplicationJson, <<"text/plain">>}

Timestamps == {DateTime(0, 0), DateTime(0, 123456), DateTime(3661, 5)}

SignCalls ==
    {[name |-> "__fn_sign", access_key_id |-> "k1", secret_access_key |-> k, url |-> u,
      content |-> c, http_method |-> m, content_type |-> ct, dt |-> d] :
        k \in {"", "s1"}, u \in Urls, c \in Contents, m \in Methods,
        ct \in ContentTypes, d \in Timestamps}

InitSign ==
    /\ self = Empty
    /\ utcNow = 0
    /\ tz = 0
    /\ op = "__init__"
    /\ args \in SignCalls
    /\ pre = Empty
    /\ exc = ""
    /\ ret = <<>>
    /\ log = NoLog
    /\ raw_string = <<>>
    /\ pc = [t \in Threads |-> "idle"]
    /\ obs = [t \in Threads |-> Empty]
    /\ frame = [t \in Threads |-> NoCall]
    /\ posted = [t \in Threads |-> 0]
    /\ session = <<>>

CallFnSign ==
    /\ op = "__init__"
    /\ \E r \in {FnSign(args.access_key_id, args.secret_access_key, args.url,
                        args.content, args.http_method, args.content_type, args.dt)} :
        /\ op' = "__fn_sign"
        /\ exc' = r.exc
        /\ ret' = r.ret
        /\ raw_string' = r.raw_string
    /\ UNCHANGED <<self, utcNow, tz, args, pre, log, pc, obs, frame, posted, session>>

NextSign == CallFnSign

SpecSign == InitSign /\ [][NextSign]_vars

(***************************************************************************)
(* Two threads, each in one __get_token call on the same instance.  A      *)
(* step is the code between two points where the other thread can run:     *)
(* the read of line 72, the evaluation of the arguments, the request, its   *)
(* answer, and the stores that follow.                                      *)
(***************************************************************************)
\* the instance after authenticate("h1", "u1", "p1") was answered at time 0 with a
\* token that expires l seconds later
Authenticated(l) ==
    [hostname |-> "h1", login |-> "u1", password |-> "p1",
     key |-> "k1", secret |-> "s1", expiry |-> <<DateTime(l, 0)>>]

InitConc ==
    /\ self \in {Empty} \cup {Authenticated(l) : l \in Lifetimes}
    /\ utcNow \in 0..MaxTime
    /\ tz = 0
    /\ op = "__init__"
    /\ args = NoCall
    /\ pre = Empty
    /\ exc = ""
    /\ ret = <<>>
    /\ log = NoLog
    /\ raw_string = <<>>
    /\ pc = [t \in Threads |-> "idle"]
    /\ obs = [t \in Threads |-> Empty]
    /\ frame = [t \in Threads |-> NoCall]
    /\ posted = [t \in Threads |-> 0]
    /\ session = IF self = Empty THEN <<>> ELSE <<<<self.hostname, self.login, self.password>>>>

Goto(t, line) == pc' = [pc EXCEPT ![t] = line]

\* the thread enters __get_token
Enter(t) ==
    /\ pc[t] = "idle"
    /\ Goto(t, "l72")
    /\ UNCHANGED <<self, utcNow, tz, op, args, pre, exc, ret, log, raw_string,
                   obs, frame, posted, session>>

\* lines 72-73
Line72(t) ==
    /\ pc[t] = "l72"
    /\ obs' = [obs EXCEPT ![t] = self]
    /\ Goto(t, IF RefreshRequired(self, LocalNow) THEN "l74" ELSE "l84")
    /\ UNCHANGED <<self, utcNow, tz, op, args, pre, exc, ret, log, raw_string,
                   frame, posted, session>>

\* lines 74-75 and 41: the arguments are read, login + ':' + password is built
Line74(t) ==
    /\ pc[t] = "l74"
    /\ frame' = [frame EXCEPT ![t] = [name |-> "authenticate",
                                      hostname |-> self.hostname,
                                      login |-> self.login,
                                      password |-> self.password]]
    /\ Goto(t, IF self.login = None \/ self.password = None THEN "TypeError" ELSE "l48")
    /\ UNCHANGED <<self, utcNow, tz, op, args, pre, exc, ret, log, raw_string,
                   obs, posted, session>>

\* line 48 behind a lock that one refresh holds from its request to its return
Line48Serialized(t) ==
    /\ pc[t] = "l48"
    /\ \A u \in Threads \ {t} : pc[u] \notin {"l50", "l59", "l76"}
    /\ IF frame[t].hostname = None
       THEN Goto(t, "TypeError") /\ UNCHANGED posted
       ELSE Goto(t, "l50") /\ posted' = [posted EXCEPT ![t] = @ + 1]
    /\ UNCHANGED <<self, utcNow, tz, op, args, pre, exc, ret, log, raw_string,
                   obs, frame, session>>

\* lines 48-49: the request is sent
Line48(t) ==
    /\ pc[t] = "l48"
    /\ IF frame[t].hostname = None
       THEN Goto(t, "TypeError") /\ UNCHANGED posted
       ELSE Goto(t, "l50") /\ posted' = [posted EXCEPT ![t] = @ + 1]
    /\ UNCHANGED <<self, utcNow, tz, op, args, pre, exc, ret, log, raw_string,
                   obs, frame, session>>

\* lines 50-57 and 76: the answer arrives; on a failed request authenticate
\* returns None and line 76 raises
Line50(t) ==
    /\ pc[t] = "l50"
    /\ \E net \in NetAt[utcNow] :
        CASE net.kind \in {"ConnectionError", "HTTPError"} ->
                 Goto(t, "TypeError") /\ UNCHANGED <<self, frame>>
          [] net.kind = "JSONDecodeError" ->
                 Goto(t, "ValueError") /\ UNCHANGED <<self, frame>>
          [] OTHER ->
                 /\ self' = StoreIdentity(self, frame[t].hostname, frame[t].login,
                                          frame[t].password)
                 /\ frame' = [frame EXCEPT ![t] = [name |-> "authenticate",
                                                   hostname |-> frame[t].hostname,
                                                   login |-> frame[t].login,
                                                   password |-> frame[t].password,
                                                   response |-> net.response]]
                 /\ Goto(t, "l59")
    /\ UNCHANGED <<utcNow, tz, op, args, pre, exc, ret, log, raw_string, obs, posted,
                   session>>

\* lines 59-63
Line59(t) ==
    /\ pc[t] = "l59"
    /\ \E r \in {StoreToken(self, frame[t].response, NoLog)} :
        /\ self' = r.self
        /\ Goto(t, IF r.exc # "" THEN r.exc ELSE "l76")
    /\ UNCHANGED <<utcNow, tz, op, args, pre, exc, ret, log, raw_string,
                   obs, frame, posted, session>>

\* lines 76-83
Line76(t) ==
    /\ pc[t] = "l76"
    /\ \E r \in {StoreRefreshed(self, [type |-> "dict", value |-> frame[t].response],
                                NoLog)} :
        /\ self' = r.self
        /\ Goto(t, IF r.exc # "" THEN r.exc ELSE "l84")
    /\ UNCHANGED <<utcNow, tz, op, args, pre, exc, ret, log, raw_string,
                   obs, frame, posted, session>>

\* line 84
Line84(t) ==
    /\ pc[t] = "l84"
    /\ frame' = [frame EXCEPT ![t] = [name |-> "__get_token", key |-> self.key,
                                      secret |-> self.secret]]
    /\ Goto(t, "returned")
    /\ UNCHANGED <<self, utcNow, tz, op, args, pre, exc, ret, log, raw_string,
                   obs, posted, session>>

NextConc ==
    \E t \in Threads :
        \/ Enter(t)
        \/ Line72(t)
        \/ Line74(t)
        \/ Line48(t)
        \/ Line50(t)
        \/ Line59(t)
        \/ Line76(t)
        \/ Line84(t)

SpecConc == InitConc /\ [][NextConc]_vars

(***************************************************************************)
(* The legacy retrieval wrappers, lines 187-344: each builds its url, gets  *)
(* the signed headers, sends one GET and unwraps the JSON body.  An id is   *)
(* the text str.format writes for it.                                       *)
(***************************************************************************)
\* '/show/'
SHOW == <<"/", "s", "h", "o", "w", "/">>

\* '/sequence/'
SEQUENCE == <<"/", "s", "e", "q", "u", "e", "n", "c", "e", "/">>

\* '/episode/'
EPISODE == <<"/", "e", "p", "i", "s", "o", "d", "e", "/">>

\* '/revision/'
REVISION == <<"/", "r", "e", "v", "i", "s", "i", "o", "n", "/">>

\* '/panel/'
PANEL == <<"/", "p", "a", "n", "e", "l", "/">>

\* '/panels'
PANELS == <<"/", "p", "a", "n", "e", "l", "s">>

\* '/dialogues'
DIALOGUES == <<"/", "d", "i", "a", "l", "o", "g", "u", "e", "s">>

\* '/show/{0}/sequence/{1}'.format(show_id, seq_id)
SequencePath(show_id, seq_id) ==
    SHOW \o show_id \o SEQUENCE \o seq_id

\* '/show/{0}/episode/{1}/sequence/{2}'.format(show_id, episode_id, seq_id)
EpisodeSequencePath(show_id, episode_id, seq_id) ==
    SHOW \o show_id \o EPISODE \o episode_id \o SEQUENCE \o seq_id

\* lines 207-211, 246-250, 286-290 and 326-330: the url of a wrapper; kind is
\* '/revision/' or '/panel/', suffix what follows the last id
WrapperUrl(show_id, seq_id, episode_id, kind, id, suffix) ==
    (IF episode_id.type # "NoneType"
     THEN EpisodeSequencePath(show_id, episode_id.value, seq_id)
     ELSE SequencePath(show_id, seq_id)) \o kind \o id \o suffix

\* what requests.get (lines 215-216) can do: raise a RequestException before r is
\* bound, or return a response with a status and a body
GetOutcomes ==
    {[kind |-> k] : k \in {"ConnectionError", "Timeout"}}
    \cup {[kind |-> "response", status |-> 200,
           body |-> [type |-> "dict", value |-> [panels |-> <<"p1">>, dialogues |-> <<"d1">>]]],
          [kind |-> "response", status |-> 200,
           body |-> [type |-> "dict", value |-> [message |-> "empty"]]],
          [kind |-> "response", status |-> 401,
           body |-> [type |-> "dict", value |-> [message |-> "unauthorized"]]],
          [kind |-> "response", status |-> 401, body |-> [type |-> "text", value |-> <<>>]]}

RequestExceptions == {"ConnectionError", "Timeout"}

TokenRevoked == "Your token has been revoked"

CouldNotRetrieve == "Could not retrieve sequence revisions"

\* the log of a wrapper call: the log of its __get_headers call, the outcome of
\* its GET (<<>> when none was sent) and the messages it printed
WrapperLog(l, got, printed) == l @@ [got |-> got, printed |-> printed]

\* lines 218-223: the handler of a RequestException; bound says whether `r` was
\* assigned in the try block, status is r.status_code
Handler(s, l, got, bound, status) ==
    IF ~bound THEN Raised(s, "UnboundLocalError", WrapperLog(l, <<got>>, <<>>))
    ELSE IF status = 401
    THEN Returned(s, PyNone, WrapperLog(l, <<got>>, <<TokenRevoked>>))
    ELSE Returned(s, PyNone, WrapperLog(l, <<got>>, <<CouldNotRetrieve>>))

\* dict.get(key) of a parsed body
DictGet(body, key) ==
    IF key \in DOMAIN body.value
    THEN [type |-> "list", value |-> body.value[key]]
    ELSE PyNone

\* lines 214-224, after the headers h were built: key is the field the wrapper
\* unwraps, "" when it returns the whole body
GetAndUnwrap(h, got, key) ==
    IF h.self.hostname = None
    THEN Raised(h.self, "TypeError", WrapperLog(h.log, <<>>, <<>>))
    ELSE IF got.kind \in RequestExceptions
    THEN Handler(h.self, h.log, got, FALSE, 0)
    ELSE IF got.body.type = "text"
    THEN Raised(h.self, "JSONDecodeError", WrapperLog(h.log, <<got>>, <<>>))
    ELSE Returned(h.self,
                  IF key = "" THEN got.body ELSE DictGet(got.body, key),
                  WrapperLog(h.log, <<got>>, <<>>))

\* what follows line 212, with h what __get_headers did: its exception leaves
\* the wrapper, which has no handler around line 212
AfterHeaders(h, got, key) ==
    IF h.exc # ""
    THEN Raised(h.self, h.exc, WrapperLog(h.log, <<>>, <<>>))
    ELSE GetAndUnwrap(h, got, key)

\* (show_id, seq_id, episode_id, revision_id or panel_id) of the wrapper calls
WrapperCalls ==
    {[show_id |-> <<"1">>, seq_id |-> <<"2">>, episode_id |-> e, id |-> <<"1">>] :
        e \in {PyNone, [type |-> "int", value |-> <<"3">>]}}

InitLegacy ==
    /\ self \in {Empty} \cup {Authenticated(l) : l \in Lifetimes}
    /\ utcNow \in 0..MaxTime
    /\ tz = 0
    /\ op = "__init__"
    /\ args = NoCall
    /\ pre = Empty
    /\ exc = ""
    /\ ret = <<>>
    /\ log = NoLog
    /\ raw_string = <<>>
    /\ pc = [t \in Threads |-> "idle"]
    /\ obs = [t \in Threads |-> Empty]
    /\ frame = [t \in Threads |-> NoCall]
    /\ posted = [t \in Threads |-> 0]
    /\ session = IF self = Empty THEN <<>> ELSE <<<<self.hostname, self.login, self.password>>>>

\* one call of the wrapper `name` with the url and the unwrapped field it uses
CallWrapper(name, c, url, key) ==
    \E net \in Answers(self, LocalNow) :
        \E h \in {GetHeaders(self, NoContent, url, <<"G", "E", "T">>, UtcDateTime,
                             LocalNow, net)} :
            \E got \in GetOutcomes :
                \E r \in {AfterHeaders(h, got, key)} :
                    /\ Finish(name,
                              [name |-> name, show_id |-> c.show_id, seq_id |-> c.seq_id,
                               episode_id |-> c.episode_id, id |-> c.id, url |-> url],
                              r)
                    /\ session' = SessionAfterGetToken(self, LocalNow, net, session)

\* lines 187-224
CallGetSequenceRevisionById ==
    \E c \in WrapperCalls :
        /\ CallWrapper("get_sequence_revision_by_id", c,
                       WrapperUrl(c.show_id, c.seq_id, c.episode_id, REVISION, c.id, <<>>),
                       "")
        /\ raw_string' = <<>>
        /\ UNCHANGED utcNow

\* lines 226-264
CallGetSequenceRevisionPanels ==
    \E c \in WrapperCalls :
        /\ CallWrapper("get_sequence_revision_panels", c,
                       WrapperUrl(c.show_id, c.seq_id, c.episode_id, REVISION, c.id, PANELS),
                       "panels")
        /\ raw_string' = <<>>
        /\ UNCHANGED utcNow

\* lines 266-304
CallGetRevisionDialogues ==
    \E c \in WrapperCalls :
        /\ CallWrapper("get_revision_dialogues", c,
                       WrapperUrl(c.show_id, c.seq_id, c.episode_id, REVISION, c.id, DIALOGUES),
                       "dialogues")
        /\ raw_string' = <<>>
        /\ UNCHANGED utcNow

\* lines 306-344
CallGetPanelDialogues ==
    \E c \in WrapperCalls :
        /\ CallWrapper("get_panel_dialogues", c,
                       WrapperUrl(c.show_id, c.seq_id, c.episode_id, PANEL, c.id, DIALOGUES),
                       "dialogues")
        /\ raw_string' = <<>>
        /\ UNCHANGED utcNow

NextLegacy ==
    \/ CallGetSequenceRevisionById
    \/ CallGetSequenceRevisionPanels
    \/ CallGetRevisionDialogues
    \/ CallGetPanelDialogues
    \/ Tick

SpecLegacy == InitLegacy /\ [][NextLegacy]_vars

LegacyWrappers ==
    {"get_sequence_revision_by_id", "get_sequence_revision_panels",
     "get_revision_dialogues", "get_panel_dialogues"}

\* C15: a legacy wrapper whose GET fails in the transport returns None and does
\* not raise, also when requests.get raised before a response existed; a wrapper
\* whose GET is answered with status 401 reports 'Your token has been revoked'.
C15_TransportFailureReturnsNull ==
    (op \in LegacyWrappers /\ log.got # <<>>) =>
        /\ log.got[1].kind \in RequestExceptions => (exc = "" /\ ret = <<PyNone>>)
        /\ (log.got[1].kind = "response" /\ log.got[1].status = 401)
               => log.printed = <<TokenRevoked>>

\* C7: nothing serializes the refresh path of __get_token: a thread that found
\* a refresh required at line 72 sends a request of its own whatever the other
\* thread is doing.  A thread at line 48 can always take its step, and a thread
\* past line 48 has sent exactly one request.
C7_RefreshNotSerialized ==
    \A t \in Threads :
        /\ pc[t] = "l48" => ENABLED Line48(t)
        /\ pc[t] \in {"l50", "l59", "l76"} => posted[t] = 1
        /\ pc[t] \in {"idle", "l72", "l74", "l48"} => posted[t] = 0

\* both threads read the same expiring token at line 72 and both have a request
\* in flight
C7_Witness ==
    /\ pc[1] = "l50" /\ pc[2] = "l50"
    /\ posted[1] = 1 /\ posted[2] = 1
    /\ obs[1] = obs[2]
    /\ obs[1].key # None
    /\ RefreshRequired(obs[1], LocalNow)

(***************************************************************************)
(* Properties of __fn_sign, checked under SpecSign.                        *)
(***************************************************************************)
\* the lines of a canonical string
Lines(raw) == Split(raw, NL)

\* the part of s before its first c (all of s when c does not occur)
BeforeFirst(s, c) ==
    IF \E i \in 1..Len(s) : s[i] = c
    THEN SubSeq(s, 1, (CHOOSE i \in 1..Len(s) :
                           s[i] = c /\ \A j \in 1..(i - 1) : s[j] # c) - 1)
    ELSE s

\* content that is absent, or an empty text, bytes or mapping
AbsentContent(c) ==
    c.type = "NoneType" \/ (c.type \in {"str", "bytes", "dict"} /\ c.value = <<>>)

\* a non-empty text, bytes or mapping
PresentContent(c) == c.type \in {"str", "bytes", "dict"} /\ c.value # <<>>

\* C8: __fn_sign called with an empty secret_access_key raises ValueError and
\* returns no signature, whatever the content, method, url, content type and
\* timestamp are.
C8_EmptySecretRaisesValueError ==
    (op = "__fn_sign" /\ args.secret_access_key = "")
        => (exc = "ValueError" /\ ret = <<>>)

\* C9: the content block of the canonical string is two empty lines when the
\* content is absent or empty, and the fingerprint line followed by the
\* content-type line when the content is a non-empty text, bytes or mapping; no
\* such content makes __fn_sign fail.
C9_ContentBlockByKind ==
    op = "__fn_sign" =>
        /\ (PresentContent(args.content) /\ args.secret_access_key # "") => exc = ""
        /\ (PresentContent(args.content) \/ AbsentContent(args.content))
               => raw_string # <<>>
        /\ raw_string # <<>> =>
               /\ AbsentContent(args.content) =>
                      /\ Lines(raw_string[1])[2] = <<>>
                      /\ Lines(raw_string[1])[3] = <<>>
               /\ PresentContent(args.content) =>
                      /\ Len(Lines(raw_string[1])[2]) = 1
                      /\ Lines(raw_string[1])[3] = args.content_type

\* GET, three newlines, 2024-01-01T00:00:00Z, newline, /show/1/sequence/2/revision/1
ScenarioCanonical ==
    <<"G", "E", "T", NL, NL, NL,
      "2", "0", "2", "4", "-", "0", "1", "-", "0", "1", "T",
      "0", "0", ":", "0", "0", ":", "0", "0", "Z", NL>> \o SequenceRevisionUrl

\* C10: every canonical string __fn_sign builds is the method uppercased, a
\* newline, the content block (two empty lines, or the fingerprint line and the
\* content-type line), the timestamp cut to whole seconds with a Z, a newline, and
\* the url up to its first '?', with nothing after it; for GET, no content,
\* /show/1/sequence/2/revision/1 and 2024-01-01T00:00:00 it is the scenario's string.
C10_CanonicalString ==
    (op = "__fn_sign" /\ raw_string # <<>>) =>
        LET raw == raw_string[1]
            lines == Lines(raw)
        IN  /\ Len(lines) = 5
            /\ Len(lines[1]) = Len(args.http_method)
            /\ \A i \in 1..Len(lines[1]) :
                   /\ lines[1][i] \notin {Lowercase[k] : k \in 1..Len(Lowercase)}
                   /\ \/ lines[1][i] = args.http_method[i]
                      \/ \E k \in 1..Len(Lowercase) :
                             /\ args.http_method[i] = Lowercase[k]
                             /\ lines[1][i] = Uppercase[k]
            /\ \/ lines[2] = <<>> /\ lines[3] = <<>>
               \/ Len(lines[2]) = 1 /\ lines[3] = args.content_type
            /\ lines[4] = IsoFormat([args.dt EXCEPT !.microsecond = 0]) \o <<"Z">>
            /\ lines[5] = BeforeFirst(args.url, "?")
            /\ \A i \in 1..Len(raw) : raw[i] # "?"
            /\ (/\ args.http_method = <<"G", "E", "T">>
                /\ args.content = NoContent
                /\ args.url = SequenceRevisionUrl
                /\ args.dt = DateTime(0, 0)) => raw = ScenarioCanonical

\* a call with a lowercase method, bytes to hash, a timestamp with microseconds
\* and a url with a query string has built its canonical string
C10_Witness ==
    /\ op = "__fn_sign"
    /\ raw_string # <<>>
    /\ args.http_method = <<"g", "e", "t">>
    /\ args.content = Bytes(<<"f", "o", "o">>)
    /\ args.dt.microsecond # 0
    /\ args.url = <<"/", "?", "s">>
    /\ exc = ""

(***************************************************************************)
(* Properties of the credential state, checked under Spec.  A state with   *)
(* op = "__get_token" is the state right after a __get_token call: pre is   *)
(* what the call found, utcNow the time of the call.                       *)
(***************************************************************************)
\* the refresh predicate as specified: a field absent, or now (UTC) + 2 h > expiry
SpecRefreshRequired(s) ==
    \/ s.key = None
    \/ s.secret = None
    \/ s.expiry = NoExpiry
    \/ utcNow + SafetyMargin > ToSeconds(s.expiry[1])

\* C1: a __get_token call that returns a pair either found a token that does
\* not expire within 2 hours of the current time, or sent an authentication
\* request before it returned.
C1_NoPairWithoutRefresh ==
    (op = "__get_token" /\ exc = "")
        => (~SpecRefreshRequired(pre) \/ log.sent # <<>>)

\* C2: __get_token calls authenticate with the stored identity if and only if
\* key, secret or expiry is absent or now (UTC) + 2 hours > expiry.
C2_RefreshIffRequired ==
    op = "__get_token" =>
        /\ (log.called # <<>>) <=> SpecRefreshRequired(pre)
        /\ log.called # <<>>
               => log.called = <<<<pre.hostname, pre.login, pre.password>>>>

\* C3: in every reachable state key, secret and expiry are all present or all
\* absent.
C3_TokenAllOrNone ==
    \/ self.key = None /\ self.secret = None /\ self.expiry = NoExpiry
    \/ self.key # None /\ self.secret # None /\ self.expiry # NoExpiry

\* C4: a call whose request to the authentication endpoint fails (transport
\* failure or non-2xx status) ends in a failure that carries that cause, and
\* returns nothing: no response, no pair, no headers.
C4_RequestFailureSurfaced ==
    (/\ op \in {"authenticate", "__get_token", "__get_headers"}
     /\ log.answer \in {"ConnectionError", "HTTPError"})
        => (exc = log.answer /\ ret = <<>>)

\* C5: a __get_token call that requires a refresh while hostname, login or
\* password is absent fails: it raises, sends no request, returns no pair and
\* leaves the six attributes as they were.
C5_RefreshWithoutIdentityFails ==
    (/\ op = "__get_token"
     /\ SpecRefreshRequired(pre)
     /\ (pre.hostname = None \/ pre.login = None \/ pre.password = None))
        => (exc # "" /\ ret = <<>> /\ log.sent = <<>> /\ self = pre)

\* __get_token on an instance with no identity has called authenticate and raised
C5_Witness ==
    /\ op = "__get_token"
    /\ pre = Empty
    /\ log.called = <<<<None, None, None>>>>
    /\ exc = "TypeError"

\* C6: when an authenticate call has finished, either the six attributes are
\* its three arguments and the token it returned, or they are what they were
\* before the call.
C6_AuthenticateAllOrNothing ==
    op = "authenticate" =>
        \/ self = pre
        \/ /\ exc = ""
           /\ ret[1].type = "dict"
           /\ self.hostname = args.hostname
           /\ self.login = args.login
           /\ self.password = args.password
           /\ self.key = ret[1].value.id
           /\ self.secret = ret[1].value.secret_access_key
           /\ self.expiry # NoExpiry
           /\ IsoFormat(self.expiry[1])
                  = BeforeFirst(ret[1].value.expiry_date, ".")

\* the pair a call returns when it returns pre's key and secret
CachedPair(s) == [type |-> "tuple", value |-> <<s.key, s.secret>>]

\* C11: a __get_token call that finds key, secret and expiry present and
\* now (UTC) + 2 hours <= expiry returns the stored pair, sends no request and
\* leaves the six attributes as they were.
C11_NoRefreshLeavesAllAlone ==
    (op = "__get_token" /\ ~SpecRefreshRequired(pre))
        => (/\ exc = ""
            /\ ret = <<CachedPair(pre)>>
            /\ log.sent = <<>>
            /\ self = pre)

\* C12: every request a __get_token or __get_headers call sends for its refresh
\* carries the hostname, login and password of the last authenticate call that
\* returned its token with no reset since; a failed authenticate call changes
\* nothing of that.
C12_RefreshUsesLastSuccessfulIdentity ==
    [][(op' \in {"__get_token", "__get_headers"} /\ log'.sent # <<>>)
          => (/\ session # <<>>
              /\ log'.sent = <<AuthRequest(session[1][1], session[1][2],
                                           session[1][3])>>)]_vars

\* C13: after reset the six attributes are absent, as on a new instance, and a
\* __get_token call that starts in that state calls authenticate and returns no
\* pair.
C13_ResetEmpties ==
    /\ op \in {"reset", "__init__"} =>
           /\ self.hostname = None /\ self.login = None /\ self.password = None
           /\ self.key = None /\ self.secret = None /\ self.expiry = NoExpiry
    /\ (op = "__get_token" /\ pre = Empty) =>
           (log.called # <<>> /\ ret = <<>>)

\* reset was called on an instance that held an identity and a token
C13_Witness ==
    /\ op = "reset"
    /\ pre.hostname # None /\ pre.key # None /\ pre.secret # None
    /\ pre.expiry # NoExpiry
    /\ self = Empty

\* C14: one call of authenticate, __get_token or __get_headers sends at most
\* one request to the authentication endpoint, and exactly one when the endpoint
\* answered it with a failure; __get_token calls authenticate at most once.
C14_AtMostOneRequest ==
    op \in {"authenticate", "__get_token", "__get_headers"} =>
        /\ Len(log.sent) <= 1
        /\ Len(log.called) <= 1
        /\ log.answer # "" => Len(log.sent) = 1

\* a __get_headers call whose refresh request failed has ended
C14_Witness ==
    /\ op = "__get_headers"
    /\ log.answer \in {"ConnectionError", "HTTPError"}
    /\ Len(log.sent) = 1
    /\ exc # ""

\* C16: an authenticate call whose request fails (transport failure or non-2xx
\* status) leaves the six attributes as they were, and a __get_headers call that
\* follows it without refreshing signs with the key and secret stored before the
\* failed call.
C16_FailedAuthenticateChangesNothing ==
    [][/\ (op' = "authenticate" /\ log'.answer \in {"ConnectionError", "HTTPError"})
              => self' = self
       /\ (/\ op = "authenticate"
           /\ log.answer \in {"ConnectionError", "HTTPError"}
           /\ op' = "__get_headers"
           /\ log'.called = <<>>
           /\ exc' = "")
              => /\ ret'[1].value.Authorization.access_key_id = pre.key
                 /\ ret'[1].value.Authorization.digest.hmac_key = pre.secret]_vars

\* a login with other credentials failed on an instance that held a token
C16_Witness ==
    /\ op = "authenticate"
    /\ log.answer = "HTTPError"
    /\ pre.key # None /\ pre.expiry # NoExpiry
    /\ args.hostname # pre.hostname
    /\ self = pre

\* C17: the headers __get_headers returns carry the stored key, a signature
\* keyed by the stored secret over the canonical string of the call, also after
\* a refresh, and a Date header and a signed timestamp that are both the time
\* read on entry.
C17_HeadersSignedWithStoredToken ==
    (op = "__get_headers" /\ exc = "") =>
        /\ ret[1].value.Authorization.access_key_id = self.key
        /\ ret[1].value.Authorization.digest.hmac_key = self.secret
        /\ raw_string # <<>>
        /\ ret[1].value.Authorization.digest.msg = raw_string[1]
        /\ Lines(raw_string[1])[4] = IsoFormat(DateTime(args.entered, 0)) \o <<"Z">>
        /\ ret[1].value.Date = Strftime(DateTime(args.entered, 0))

\* a __get_headers call replaced the token while a second passed, and returned
C17_Witness ==
    /\ op = "__get_headers"
    /\ exc = ""
    /\ log.sent # <<>>
    /\ pre.key # None
    /\ self.key # pre.key
    /\ utcNow > args.entered


====
